---------------------------- MODULE Spec2Model ----------------------------
(***************************************************************************)
(* State-machine model of scripts/speech_activity_detection.py: the        *)
(* runner (__main__) and its four modes train / validation / tune / apply. *)
(*                                                                         *)
(* Conventions of the model                                                *)
(*   - a weights file  {train_dir}/weights/{epoch:04d}.h5  is identified   *)
(*     by its epoch index ({:04d} is injective on the indices used);       *)
(*   - the clock counts seconds from the start of the run;                 *)
(*   - thresholds (onset, offset) and soft scores are tenths: 5 is 0.5;    *)
(*   - a rate (DER, precision, recall, F) is an exact fraction <<n, d>>,   *)
(*     d > 0, compared by cross-multiplication;                            *)
(*   - an uncaught Python exception ends the run: pc = "aborted" and       *)
(*     error names the exception.                                          *)
(***************************************************************************)
EXTENDS Integers, Sequences, FiniteSets, TLC

(***************************************************************************)
(* Bounds of the model.                                                    *)
(***************************************************************************)
MaxEpoch == 3       \* weights files that can exist: epochs 0..MaxEpoch-1
MaxTrials == 11     \* optimizer trials explored (the code runs N_CALLS)
MaxClock == 2       \* sleep periods explored in validation mode
NFrames == 2        \* frames of a media file

(***************************************************************************)
(* Program constants.                                                      *)
(***************************************************************************)
N_CALLS == 1000         \* gp_minimize(n_calls=1000)
SLEEP_SECONDS == 60     \* time.sleep(60)
PLOT_PERIOD == 10       \* if n_trials % 10 > 0: return

NaN == <<0, 0>>         \* float('nan'): the fraction 0/0

Frames == 1..NFrames
Epochs == 0..(MaxEpoch - 1)

Min(a, b) == IF a <= b THEN a ELSE b

(***************************************************************************)
(* Exact fractions.                                                        *)
(***************************************************************************)
RLeq(a, b) == a[1] * b[2] <= b[1] * a[2]
RLess(a, b) == a[1] * b[2] < b[1] * a[2]
RAdd(a, b) == <<a[1] * b[2] + b[1] * a[2], a[2] * b[2]>>

RECURSIVE RSum(_)
RSum(s) == IF s = <<>> THEN <<0, 1>> ELSE RAdd(Head(s), RSum(Tail(s)))

\* np.mean(list): nan for an empty list
Mean(s) == IF s = <<>> THEN NaN ELSE LET t == RSum(s) IN <<t[1], t[2] * Len(s)>>

(***************************************************************************)
(* The protocol's subset: a sequence of items.  An item has a uri, and     *)
(* optionally a reference annotation (the set of speech frames) and an     *)
(* annotated region (uem, a set of frames).                                *)
(***************************************************************************)
Item(u, keys, ref, uem) ==
    [uri |-> u, keys |-> keys, annotation |-> ref, annotated |-> uem]

Both == {"annotation", "annotated"}

Subsets ==
    { <<>>,
      << Item("u1", Both, {1}, Frames) >>,
      << Item("u1", Both, {1}, Frames), Item("u2", Both, Frames, {1}),
         Item("u3", {"annotation"}, {2}, {}) >>,
      << Item("u1", Both, {1}, Frames), Item("u2", {}, {}, {}),
         Item("u3", {"annotation"}, {2}, {}) >> }

Uris == {"u1", "u2", "u3"}
UriIndex(u) == CASE u = "u1" -> 1 [] u = "u2" -> 2 [] OTHER -> 3

\* get_annotated(item): item['annotated'] when present, else the whole file
get_annotated(item) ==
    IF "annotated" \in item.keys THEN item.annotated ELSE Frames

(***************************************************************************)
(* The external collaborators, by what they compute.                       *)
(***************************************************************************)
\* aggregation.apply(item) with the weights of `epoch`: a soft score per frame
AggregationApply(epoch, item) ==
    [t \in Frames |-> (3 * epoch + 4 * UriIndex(item.uri) + 5 * t) % 11]

\* Binarize(onset, offset).apply(soft): hysteresis thresholding, frame by
\* frame; the result is the set of active (speech) frames
RECURSIVE BinarizeFrom(_, _, _, _, _)
BinarizeFrom(soft, onset, offset, t, label) ==
    IF t > NFrames THEN {}
    ELSE LET next == IF label THEN ~(soft[t] < offset) ELSE soft[t] > onset
         IN (IF next THEN {t} ELSE {}) \cup
            BinarizeFrom(soft, onset, offset, t + 1, next)

Binarize(soft, onset, offset) == BinarizeFrom(soft, onset, offset, 1, FALSE)

\* components of the pyannote.metrics detection metrics on one file
DerComponents(reference, hypothesis, uem) ==
    [total |-> Cardinality(reference \cap uem),
     error |-> Cardinality((hypothesis \cap uem) \ reference)
               + Cardinality((reference \cap uem) \ hypothesis)]

PrfComponents(reference, hypothesis, uem) ==
    [retrieved |-> Cardinality(hypothesis \cap uem),
     relevant |-> Cardinality(reference \cap uem),
     both |-> Cardinality(hypothesis \cap reference \cap uem)]

\* DetectionErrorRate.compute_metric
DerRate(c) ==
    IF c.total = 0 THEN (IF c.error = 0 THEN <<0, 1>> ELSE <<1, 1>>)
    ELSE <<c.error, c.total>>

\* DetectionPrecision.compute_metric, DetectionRecall.compute_metric
PrecisionRate(c) == IF c.retrieved = 0 THEN <<1, 1>> ELSE <<c.both, c.retrieved>>
RecallRate(c) == IF c.relevant = 0 THEN <<1, 1>> ELSE <<c.both, c.relevant>>

\* pyannote.metrics.f_measure(precision, recall, beta)
f_measure(p, r, beta) ==
    IF p[1] = 0 /\ r[1] = 0 THEN <<0, 1>>
    ELSE <<(1 + beta * beta) * p[1] * r[1],
           beta * beta * p[1] * r[2] + r[1] * p[2]>>

(***************************************************************************)
(* Strings and templates.                                                  *)
(***************************************************************************)
None == "None"          \* Python's None, where a string is expected

Lit(text) == [field |-> FALSE, text |-> text]
Fld(name) == [field |-> TRUE, text |-> name]

\* TRAIN_DIR = '{experiment_dir}/train/{protocol}.{subset}/{path}'
TRAIN_DIR ==
    << Fld("experiment_dir"), Lit("/train/"), Fld("protocol"), Lit("."),
       Fld("subset"), Lit("/"), Fld("path") >>

RECURSIVE Render(_, _)
Render(template, kwargs) ==
    IF template = <<>> THEN ""
    ELSE LET h == Head(template)
         IN (IF h.field THEN kwargs[h.text] ELSE h.text)
            \o Render(Tail(template), kwargs)

\* str.format(**kwargs): KeyError when a replacement field has no argument
Format(template, kwargs) ==
    IF \E i \in 1..Len(template) :
          template[i].field /\ template[i].text \notin DOMAIN kwargs
    THEN [ok |-> FALSE, value |-> ""]
    ELSE [ok |-> TRUE, value |-> Render(template, kwargs)]

\* '<database.task.protocol>'.split('.')
Protocols ==
    { "Etape.SpeakerDiarization.TV", "AMI.SpeakerRecognition.MixHeadset",
      "Etape.TV" }

Split(protocol) ==
    CASE protocol = "Etape.SpeakerDiarization.TV"
           -> <<"Etape", "SpeakerDiarization", "TV">>
      [] protocol = "AMI.SpeakerRecognition.MixHeadset"
           -> <<"AMI", "SpeakerRecognition", "MixHeadset">>
      [] OTHER -> <<"Etape", "TV">>

\* isinstance(protocol, SpeakerDiarizationProtocol)
IsSpeakerDiarization(protocol) == Split(protocol)[2] = "SpeakerDiarization"

\* names bound in the module's global scope when a mode runs: the imports,
\* the module-level definitions and the variables assigned under __main__
ModuleGlobals ==
    { "time", "yaml", "pickle", "os", "datetime", "functools", "np", "docopt",
      "matplotlib", "plt", "pyannote", "SequenceLabeling",
      "SpeechActivityDetectionBatchGenerator", "SequenceLabelingAggregation",
      "Binarize", "get_database", "FileFinder", "get_unique_identifier",
      "get_annotated", "SpeakerDiarizationProtocol", "mkdir_p", "SSMORMS3",
      "skopt", "DetectionErrorRate", "DetectionRecall", "DetectionPrecision",
      "f_measure", "WEIGHTS_H5", "train", "get_aggregation",
      "speech_activity_detection_xp", "validate", "tune", "test",
      "arguments", "db_yml", "preprocessors", "protocol", "database_name",
      "task_name", "protocol_name", "database", "subset", "experiment_dir",
      "TRAIN_DIR", "train_dir", "validation_dir", "tune_dir", "apply_dir",
      "beta", "res" }

\* {}: a dict without keys
EmptyDict == [k \in {} |-> {}]

\* the files tune mode writes under tune_dir
TuneOutputs ==
    {"tune.yml", "convergence.png", "evaluation.png", "objective.png", "tune.gz"}

\* the (onset, offset) pairs the optimizer is taken to draw from [0, 1]^2
ThresholdPairs == {<<5, 5>>, <<8, 2>>}

(***************************************************************************)
(* State.                                                                  *)
(***************************************************************************)
VARIABLES
    mode,         \* the command: "train", "validation", "tune", "apply"
    arguments,    \* docopt's arguments: dir, protocol, subset, recall
    pc,           \* position of the run
    error,        \* the uncaught exception that ended the run, or None
    subset,       \* the subset in use (after defaulting)
    items,        \* the items getattr(protocol, subset)() yields
    configYml,    \* <experiment_dir>/config.yml is readable
    outDirExists, \* tune_dir (tune) or apply_dir (apply) already exists
    weights,      \* epochs whose weights file exists under train_dir
    now,          \* the clock, in seconds
    train_dir,    \* train mode: the directory derived, None before
    trainCalls,   \* train mode: the calls of train(), as argument records
    epoch,        \* validation: the epoch being waited for
    ders,         \* validation: the list ders
    derTxt,       \* validation: lines of {subset}.der.txt
    derTxtOld,    \* validation: the lines of the file when the run started
    derPng,       \* validation: <<best_epoch, best_value>> of the plot saved
    xpCalls,      \* validation: epochs speech_activity_detection_xp ran on
    nb_epoch,     \* tune: the number of checkpoints the scan found
    predictions,  \* tune: the cache, epoch -> (uri -> soft scores)
    applyCalls,   \* tune: number of aggregation.apply calls per <<epoch, uri>>
    parameters,   \* tune: the point the objective function was last called on
    Xi,           \* tune: the points evaluated, each with its value
    n_trials,     \* tune: len(res.func_vals)
    res,          \* tune: the optimizer's result, <<[x, fun]>> once it has one
    tuneYml,      \* tune.yml: <<>> when absent, else <<its content>>
    tuneFiles,    \* tune: per output file, the trial it was last written at
    softPkl,      \* apply: uris whose {uri}.soft.pkl is written
    hardJson,     \* apply: uris whose {uri}.hard.json is written
    evalTxt       \* apply: lines of eval.txt

mainVars == <<mode, arguments, items, configYml, outDirExists>>
trainVars == <<train_dir, trainCalls>>
valVars == <<epoch, ders, derTxt, derTxtOld, derPng, xpCalls>>
tuneVars == <<nb_epoch, predictions, applyCalls, parameters, Xi, n_trials,
              res, tuneYml, tuneFiles>>

applyVars == <<softPkl, hardJson, evalTxt>>

vars == <<mainVars, pc, error, subset, weights, now, trainVars, valVars,
          tuneVars, applyVars>>

Abort(exception) == pc' = "aborted" /\ error' = exception

\* a DER line already in the file when the run starts
OldLine == [epoch |-> 7, now |-> 0, der |-> 123456]

Init ==
    /\ mode \in {"train", "validation", "tune", "apply"}
    /\ arguments \in
         [dir : IF mode = "train" THEN {"exp", "exp2"} ELSE {"dir"},
          protocol : IF mode \in {"train", "validation"} THEN Protocols
                     ELSE {"Etape.SpeakerDiarization.TV"},
          subset : IF mode = "train" THEN {None, "train", "development"}
                   ELSE {None},
          recall : IF mode = "apply" THEN {1, 2} ELSE {1}]
    /\ pc = "main"
    /\ error = None
    /\ subset = arguments.subset
    /\ items \in IF mode = "train" THEN {<<>>} ELSE Subsets
    /\ configYml \in BOOLEAN
    /\ outDirExists \in IF mode \in {"tune", "apply"} THEN BOOLEAN ELSE {FALSE}
    /\ weights \in IF mode \in {"validation", "tune"} THEN SUBSET Epochs
                   ELSE IF mode = "apply" THEN {Epochs} ELSE {{}}
    /\ now = 0
    /\ train_dir = None
    /\ trainCalls = <<>>
    /\ epoch = 0
    /\ ders = <<>>
    /\ derTxt \in IF mode = "validation" THEN {<<>>, <<OldLine>>} ELSE {<<>>}
    /\ derTxtOld = derTxt
    /\ derPng = <<>>
    /\ xpCalls = <<>>
    /\ nb_epoch = 0
    /\ predictions = EmptyDict
    /\ applyCalls = [k \in Epochs \X Uris |-> 0]
    /\ parameters = <<>>
    /\ Xi = {}
    /\ n_trials = 0
    /\ res = <<>>
    /\ tuneYml \in IF mode = "apply"
                   THEN {<<>>, <<[status |-> [nb_epoch |-> MaxEpoch],
                                  epoch |-> 0, onset |-> 5, offset |-> 5]>>}
                   ELSE {<<>>}
    /\ tuneFiles = [f \in TuneOutputs |-> 0]
    /\ softPkl = {}
    /\ hardJson = {}
    /\ evalTxt = <<>>

(***************************************************************************)
(* __main__: argument parsing and protocol lookup, then the mode's branch. *)
(***************************************************************************)
\* database_name, task_name, protocol_name = protocol.split('.')
Main ==
    /\ pc = "main"
    /\ IF Len(Split(arguments.protocol)) # 3
       THEN Abort("ValueError")
       ELSE pc' = "dispatch" /\ UNCHANGED error
    /\ UNCHANGED <<mainVars, subset, weights, now, trainVars, valVars, tuneVars, applyVars>>

\* if arguments['train']: derive train_dir, then train(...)
MainTrain ==
    /\ pc = "dispatch" /\ mode = "train"
    /\ subset' = IF subset = None THEN "train" ELSE subset
    /\ LET formatted ==
             Format(TRAIN_DIR,
                    [experiment_dir |-> arguments.dir,
                     protocol |-> arguments.protocol,
                     subset |-> subset'])
       IN IF ~formatted.ok
          THEN Abort("KeyError") /\ UNCHANGED trainVars
          ELSE /\ train_dir' = formatted.value
               /\ trainCalls' = Append(trainCalls,
                     [experiment_dir |-> arguments.dir,
                      train_dir |-> formatted.value, subset |-> subset'])
               /\ IF configYml
                  THEN pc' = "training" /\ UNCHANGED error
                  ELSE Abort("IOError")
    /\ UNCHANGED <<mainVars, weights, now, valVars, tuneVars, applyVars>>

\* labeling.fit(..., log_dir=train_dir): a training process writes the
\* weights file of an epoch under train_dir/weights
FitEpoch ==
    /\ \/ mode = "train" /\ pc = "training"
       \/ mode = "validation" /\ pc \notin {"done", "aborted"}
    /\ \E e \in Epochs \ weights :
          /\ mode = "train" => e = Cardinality(weights)
          /\ weights' = weights \cup {e}
    /\ UNCHANGED <<mainVars, pc, error, subset, now, trainVars, valVars, tuneVars, applyVars>>

(***************************************************************************)
(* validation mode.                                                        *)
(***************************************************************************)
\* the second loop of speech_activity_detection_xp: der is assigned the
\* value the metric returns for each item in turn
RECURSIVE XpLoop(_, _, _, _, _)
XpLoop(ep, its, onset, offset, der) ==
    IF its = <<>> THEN der
    ELSE LET item == Head(its)
             hypothesis == Binarize(AggregationApply(ep, item), onset, offset)
             components == DerComponents(item.annotation, hypothesis,
                                         get_annotated(item))
         IN XpLoop(ep, Tail(its), onset, offset, <<DerRate(components)>>)

\* speech_activity_detection_xp(aggregation, protocol, subset, onset, offset)
speech_activity_detection_xp(ep, its, onset, offset) ==
    IF \E i \in 1..Len(its) : "annotation" \notin its[i].keys
    THEN [error |-> "KeyError", der |-> NaN]
    ELSE LET der == XpLoop(ep, its, onset, offset, <<>>)
         IN IF der = <<>>
            THEN [error |-> "UnboundLocalError", der |-> NaN]
            ELSE [error |-> None, der |-> der[1]]

\* '{der:5f}': six decimals, here as an integer count of millionths
Format5f(rate) == (2 * 1000000 * rate[1] + rate[2]) \div (2 * rate[2])

\* DER_TEMPLATE.format(epoch=epoch, der=der, now=now)
DerLine(ep, clock, der) == [epoch |-> ep, now |-> clock, der |-> Format5f(der)]

\* np.argmin(ders): the first index (from 0) of the smallest value
ArgMin(values) ==
    CHOOSE i \in 0..(Len(values) - 1) :
       /\ \A j \in 0..(Len(values) - 1) : RLeq(values[i + 1], values[j + 1])
       /\ \A j \in 0..(i - 1) : ~RLeq(values[j + 1], values[i + 1])

\* if arguments['validation']: validation_dir, then validate(...)
MainValidation ==
    /\ pc = "dispatch" /\ mode = "validation"
    /\ subset' = IF subset = None THEN "development" ELSE subset
    /\ pc' = "validate"
    /\ UNCHANGED <<mainVars, error, weights, now, trainVars, valVars, tuneVars, applyVars>>

\* open(path, mode='a'): the lines of the file are kept
OpenForAppending(lines) == lines

\* open(path, mode='w'): the file is created empty, or truncated
OpenForWriting(lines) == <<>>

\* validate(), up to the polling loop: mkdir_p, the configuration, the
\* DER file opened for writing, epoch = 0
ValidateOpen ==
    /\ pc = "validate"
    /\ IF ~configYml
       THEN Abort("IOError") /\ UNCHANGED valVars
       ELSE /\ ders' = <<>>
            /\ derTxt' = OpenForWriting(derTxt)
            /\ epoch' = 0
            /\ pc' = "poll"
            /\ UNCHANGED <<error, derTxtOld, derPng, xpCalls>>
    /\ UNCHANGED <<mainVars, subset, weights, now, trainVars, tuneVars, applyVars>>

\* a loop that ends (break) when the weights file of `epoch` is missing
ValidateBreak ==
    /\ pc = "poll"
    /\ epoch \notin weights
    /\ pc' = "done"
    /\ UNCHANGED <<mainVars, error, subset, weights, now, trainVars, valVars,
                   tuneVars, applyVars>>

\* the loop body when the weights file of `epoch` is missing:
\* time.sleep(60); continue
ValidateSleep ==
    /\ pc = "poll"
    /\ epoch \notin weights
    /\ now < MaxClock * SLEEP_SECONDS
    /\ now' = now + SLEEP_SECONDS
    /\ UNCHANGED <<mainVars, pc, error, subset, weights, trainVars, valVars, tuneVars, applyVars>>

\* a loop that skips an epoch
SkipEpoch(ep) == ep + 2

\* the epoch the loop goes on with after evaluating `ep`: epoch += 1
NextEpoch(ep) == ep + 1

\* the loop body when the weights file of `epoch` exists: the DER of the
\* epoch, its line in the DER file, the plot, then the next epoch
ValidateEpoch ==
    /\ pc = "poll"
    /\ epoch \in weights
    /\ IF ~IsSpeakerDiarization(arguments.protocol)
       THEN \* der is not assigned: NameError in DER_TEMPLATE.format(der=der)
            Abort("NameError") /\ UNCHANGED valVars
       ELSE LET xp == speech_activity_detection_xp(epoch, items, 5, 5)
            IN /\ xpCalls' = Append(xpCalls, epoch)
               /\ UNCHANGED derTxtOld
               /\ IF xp.error # None
                  THEN /\ Abort(xp.error)
                       /\ UNCHANGED <<epoch, ders, derTxt, derPng>>
                  ELSE /\ derTxt' = Append(derTxt, DerLine(epoch, now, xp.der))
                       /\ ders' = Append(ders, xp.der)
                       /\ derPng' = <<ArgMin(ders'), ders'[ArgMin(ders') + 1]>>
                       /\ epoch' = NextEpoch(epoch)
                       /\ UNCHANGED <<pc, error>>
    /\ UNCHANGED <<mainVars, subset, weights, now, trainVars, tuneVars, applyVars>>

(***************************************************************************)
(* tune mode.                                                              *)
(***************************************************************************)
\* if arguments['tune']: tune_dir, then tune(...)
MainTune ==
    /\ pc = "dispatch" /\ mode = "tune"
    /\ subset' = IF subset = None THEN "development" ELSE subset
    /\ pc' = "tune"
    /\ UNCHANGED <<mainVars, error, weights, now, trainVars, valVars, tuneVars, applyVars>>

\* nb_epoch = 0; while True: if not isfile(weights of nb_epoch): break;
\* nb_epoch += 1
RECURSIVE ScanFrom(_, _)
ScanFrom(files, n) == IF n \notin files THEN n ELSE ScanFrom(files, n + 1)

\* a scan that counts the weights files instead of stopping at the first gap
ScanCountsFiles(files) == Cardinality(files)

ScanEpochs(files) == ScanFrom(files, 0)

\* tune(), up to the definition of the search space: os.makedirs(tune_dir),
\* the epoch scan, the configuration, the empty prediction cache
TuneScan ==
    /\ pc = "tune"
    /\ IF outDirExists
       THEN Abort("OSError") /\ UNCHANGED nb_epoch
       ELSE /\ nb_epoch' = ScanEpochs(weights)
            /\ IF configYml
               THEN pc' = "space" /\ UNCHANGED error
               ELSE Abort("IOError")
    /\ UNCHANGED <<mainVars, subset, weights, now, trainVars, valVars,
                   predictions, applyCalls, parameters, Xi, n_trials, res,
                   tuneYml, tuneFiles, applyVars>>

\* an initial point one epoch too far
X0PastLast(n) == <<n, 5, 5>>

\* x0=[nb_epoch - 1, 0.5, 0.5]
X0(n) == <<n - 1, 5, 5>>

\* [Integer(0, nb_epoch - 1), Real(0., 1.), Real(0., 1.)]: the points the
\* optimizer can ask for
Space(n) == { <<e, th[1], th[2]>> : e \in 0..(n - 1), th \in ThresholdPairs }

\* skopt.space.Integer(0, nb_epoch - 1) and the start of gp_minimize.  A
\* dimension whose upper bound is not above its lower bound is refused
\* (ValueError) by some releases of the optimizer and accepted by others.
TuneSpace ==
    /\ pc = "space"
    /\ \/ pc' = "objective" /\ UNCHANGED error
       \/ nb_epoch - 1 <= 0 /\ Abort("ValueError")
    /\ UNCHANGED <<mainVars, subset, weights, now, trainVars, valVars, tuneVars, applyVars>>

\* a cache test that never finds the prediction
NeverCached(cache, ep, uri) == FALSE

\* if uri in predictions[epoch]
Cached(cache, ep, uri) == uri \in DOMAIN cache[ep]

\* one turn of the loop over the development files in objective_function:
\* the prediction comes from the cache, or from aggregation.apply and is then
\* stored; the metric accumulates the file's components
ObjectiveItem(st, ep, onset, offset, dev_file) ==
    LET uri == dev_file.uri
        cached == Cached(st.predictions, ep, uri)
        prediction == IF cached THEN st.predictions[ep][uri]
                      ELSE AggregationApply(ep, dev_file)
        hypothesis == Binarize(prediction, onset, offset)
        c == DerComponents(dev_file.annotation, hypothesis,
                           get_annotated(dev_file))
    IN IF "annotation" \notin dev_file.keys
       THEN [st EXCEPT !.error = "KeyError"]
       ELSE [predictions |->
               IF cached THEN st.predictions
               ELSE [st.predictions EXCEPT ![ep] = (uri :> prediction) @@ @],
             applyCalls |->
               IF cached THEN st.applyCalls
               ELSE [st.applyCalls EXCEPT ![<<ep, uri>>] = @ + 1],
             total |-> st.total + c.total,
             errors |-> st.errors + c.error,
             error |-> None]

RECURSIVE ObjectiveLoop(_, _, _, _, _)
ObjectiveLoop(st, ep, onset, offset, its) ==
    IF its = <<>> \/ st.error # None THEN st
    ELSE ObjectiveLoop(ObjectiveItem(st, ep, onset, offset, Head(its)),
                       ep, onset, offset, Tail(its))

\* the optimizer's result after a trial: x is the first point that reached
\* the smallest value, fun that value
Tell(result, x, y) ==
    IF result = <<>> \/ RLess(y, result[1].fun)
    THEN <<[x |-> x, fun |-> y]>>
    ELSE result

\* gp_minimize asks for a point (x0 first) and calls objective_function on
\* it; the value is added to the result
ObjectiveFunction ==
    /\ pc = "objective"
    /\ n_trials < Min(N_CALLS, MaxTrials)
    /\ \E x \in IF n_trials = 0 THEN {X0(nb_epoch)} ELSE Space(nb_epoch) :
         /\ parameters' = x
         /\ IF x[1] \notin weights
            THEN \* SequenceLabeling.from_disk: no such weights file
                 /\ Abort("IOError")
                 /\ UNCHANGED <<predictions, applyCalls, Xi, n_trials, res>>
            ELSE LET start == [predictions |->
                                 IF x[1] \in DOMAIN predictions THEN predictions
                                 ELSE (x[1] :> EmptyDict) @@ predictions,
                               applyCalls |-> applyCalls,
                               total |-> 0, errors |-> 0, error |-> None]
                     end == ObjectiveLoop(start, x[1], x[2], x[3], items)
                     y == DerRate([total |-> end.total, error |-> end.errors])
                 IN /\ predictions' = end.predictions
                    /\ applyCalls' = end.applyCalls
                    /\ IF end.error # None
                       THEN Abort(end.error) /\ UNCHANGED <<Xi, n_trials, res>>
                       ELSE /\ Xi' = Xi \cup {[x |-> x, y |-> y]}
                            /\ n_trials' = n_trials + 1
                            /\ res' = Tell(res, x, y)
                            /\ pc' = "callback"
                            /\ UNCHANGED error
    /\ UNCHANGED <<mainVars, subset, weights, now, trainVars, valVars,
                   nb_epoch, tuneYml, tuneFiles, applyVars>>

\* a callback that saves the point of the latest trial
LatestPoint == parameters

\* the point callback saves in tune.yml: epoch, onset, offset = res.x
SavedPoint == res[1].x

\* a callback that writes every output file after every trial
WrittenEveryTrial(n, plotted) == TuneOutputs

\* the output files callback writes after trial n; objective.png only when
\* plot_objective did not raise
Written(n, plotted) ==
    {"tune.yml", "convergence.png"} \cup
    (IF n % PLOT_PERIOD > 0 THEN {}
     ELSE {"evaluation.png", "tune.gz"} \cup
          (IF plotted THEN {"objective.png"} ELSE {}))

\* callback(res), then gp_minimize goes on until n_calls values are known
Callback ==
    /\ pc = "callback"
    /\ tuneYml' = <<[status |-> [nb_epoch |-> nb_epoch],
                     epoch |-> SavedPoint[1],
                     onset |-> SavedPoint[2],
                     offset |-> SavedPoint[3]]>>
    /\ \E plotted \in BOOLEAN :
          tuneFiles' = [f \in TuneOutputs |->
                          IF f \in Written(n_trials, plotted) THEN n_trials
                          ELSE tuneFiles[f]]
    /\ pc' = IF n_trials >= N_CALLS THEN "done" ELSE "objective"
    /\ UNCHANGED <<mainVars, error, subset, weights, now, trainVars, valVars,
                   nb_epoch, predictions, applyCalls, parameters, Xi,
                   n_trials, res, applyVars>>

(***************************************************************************)
(* apply mode.                                                             *)
(***************************************************************************)
\* if arguments['apply']: apply_dir, then test(...)
MainApply ==
    /\ pc = "dispatch" /\ mode = "apply"
    /\ subset' = IF subset = None THEN "test" ELSE subset
    /\ pc' = "test"
    /\ UNCHANGED <<mainVars, error, weights, now, trainVars, valVars, tuneVars,
                   applyVars>>

\* '{precision:.5f}': five decimals, here as an integer count of 1e-5;
\* nan is written -1
Format5(rate) ==
    IF rate[2] = 0 THEN -1
    ELSE (2 * 100000 * rate[1] + rate[2]) \div (2 * rate[2])

\* TEMPLATE.format(uri=uri, precision=p, recall=r, f_measure=f)
EvalLine(uri, p, r, f) ==
    [uri |-> uri, precision |-> Format5(p), recall |-> Format5(r),
     f_measure |-> Format5(f)]

\* one turn of the loop over the test files in test(): the soft and hard
\* outputs are written; a file without 'annotation' or 'annotated' is not
\* scored (except KeyError: continue); a scored file adds to the precision
\* and recall accumulators, to fscore and to eval.txt
TestItem(st, ep, tune, beta, test_file) ==
    LET soft == AggregationApply(ep, test_file)
        hard == Binarize(soft, tune.onset, tune.offset)
        uri == test_file.uri
        written == [st EXCEPT !.softPkl = @ \cup {uri},
                              !.hardJson = @ \cup {uri}]
        c == PrfComponents(test_file.annotation, hard, test_file.annotated)
        p == PrecisionRate(c)
        r == RecallRate(c)
        f == f_measure(p, r, beta)
    IN IF ~(Both \subseteq test_file.keys) THEN written
       ELSE [written EXCEPT
               !.retrieved = @ + c.retrieved,
               !.relevant = @ + c.relevant,
               !.bothP = @ + c.both,
               !.fscore = Append(@, f),
               !.evalTxt = Append(@, EvalLine(uri, p, r, f))]

RECURSIVE TestLoop(_, _, _, _, _)
TestLoop(st, ep, tune, beta, its) ==
    IF its = <<>> THEN st
    ELSE TestLoop(TestItem(st, ep, tune, beta, Head(its)),
                  ep, tune, beta, Tail(its))

\* after the loop: abs(precision), abs(recall), np.mean(fscore), and the
\* line of uri 'ALL'
AllLine(st) ==
    LET acc == [retrieved |-> st.retrieved, relevant |-> st.relevant,
                both |-> st.bothP]
    IN EvalLine("ALL", PrecisionRate(acc), RecallRate(acc), Mean(st.fscore))

\* test(protocol, tune_dir, apply_dir, subset, beta).  The name epoch in
\* WEIGHTS_H5.format(train_dir=train_dir, epoch=epoch) is neither a local
\* of test() nor a global of the module.
Test ==
    /\ pc = "test"
    /\ IF outDirExists
       THEN Abort("OSError") /\ UNCHANGED applyVars
       ELSE IF ~configYml \/ tuneYml = <<>>
       THEN Abort("IOError") /\ UNCHANGED applyVars
       ELSE IF "epoch" \notin ModuleGlobals
       THEN Abort("NameError") /\ UNCHANGED applyVars
       ELSE \E ep \in Epochs :
              IF ep \notin weights
              THEN Abort("IOError") /\ UNCHANGED applyVars
              ELSE LET start == [softPkl |-> softPkl, hardJson |-> hardJson,
                                 evalTxt |-> evalTxt, retrieved |-> 0,
                                 relevant |-> 0, bothP |-> 0, fscore |-> <<>>]
                       end == TestLoop(start, ep, tuneYml[1],
                                       arguments.recall, items)
                   IN /\ softPkl' = end.softPkl
                      /\ hardJson' = end.hardJson
                      /\ evalTxt' = Append(end.evalTxt, AllLine(end))
                      /\ pc' = "done"
                      /\ UNCHANGED error
    /\ UNCHANGED <<mainVars, subset, weights, now, trainVars, valVars, tuneVars>>

Next ==
    \/ Main \/ MainTrain \/ FitEpoch
    \/ MainApply \/ Test
    \/ MainTune \/ TuneScan \/ TuneSpace \/ ObjectiveFunction \/ Callback
    \/ MainValidation \/ ValidateOpen \/ ValidateSleep \/ ValidateEpoch

Spec == Init /\ [][Next]_vars

(***************************************************************************)
(* A validation run alone, with the scheduling of its single thread: the   *)
(* process keeps executing, so a step of main or of validate() that stays  *)
(* possible is eventually taken.  Nothing is assumed of the training       *)
(* process that writes the weights files.                                  *)
(***************************************************************************)
InitValidation == Init /\ mode = "validation"

NextValidation ==
    \/ Main \/ MainValidation \/ ValidateOpen \/ ValidateSleep
    \/ ValidateEpoch \/ FitEpoch

FairValidation ==
    /\ InitValidation
    /\ [][NextValidation]_vars
    /\ WF_vars(Main) /\ WF_vars(MainValidation) /\ WF_vars(ValidateOpen)
    /\ WF_vars(ValidateEpoch)

(***************************************************************************)
(* Properties.                                                             *)
(***************************************************************************)
\* tune() has scanned the checkpoints
Scanned == mode = "tune" /\ pc \in {"space", "objective", "callback", "done"}

\* C1: in tune mode the epoch scan returns the smallest index whose weights
\* file does not exist: every index below nb_epoch exists, nb_epoch does
\* not, whatever exists beyond that first gap.
C1_ScanSmallestMissing ==
    Scanned =>
       /\ nb_epoch \notin weights
       /\ \A e \in 0..(nb_epoch - 1) : e \in weights

\* the scan stopped at a gap below an existing file
C1_Witness ==
    /\ Scanned
    /\ nb_epoch = 1
    /\ 2 \in weights

\* a train-mode run that got past argument parsing has left main's branch
TrainBranchLeft == mode = "train" /\ pc \in {"training", "aborted", "done"}

\* C2: in train mode the runner derives
\* <experiment_dir>/train/<database.task.protocol>.<subset> (subset 'train'
\* by default) and calls train() with it; the run does not abort before
\* training starts.
C2_TrainDirDerived ==
    (TrainBranchLeft /\ Len(Split(arguments.protocol)) = 3 /\ configYml) =>
       /\ pc = "training"
       /\ Len(trainCalls) = 1
       /\ train_dir = arguments.dir \o "/train/" \o arguments.protocol \o "."
                      \o (IF arguments.subset = None THEN "train"
                          ELSE arguments.subset)
       /\ trainCalls[1].train_dir = train_dir

\* an apply-mode run, started with a fresh apply directory, a readable
\* configuration and tune.yml in the tune directory, has ended
ApplyEnded ==
    /\ mode = "apply" /\ pc \in {"done", "aborted"}
    /\ ~outDirExists /\ configYml /\ tuneYml # <<>>

\* the test file is scored: it has a reference and an annotated region
Scored(test_file) == Both \subseteq test_file.keys

\* C3: in apply mode, given tune.yml, test() loads the weights of the epoch
\* recorded there and writes {uri}.soft.pkl and {uri}.hard.json for every
\* item of the subset: after the run every uri has both files.
C3_ApplyWritesOutputs ==
    ApplyEnded =>
       \A i \in 1..Len(items) :
          items[i].uri \in softPkl /\ items[i].uri \in hardJson

\* the precision/recall components summed over the scored files, with the
\* hard outputs of the epoch and thresholds of tune.yml
RECURSIVE MicroComponents(_, _)
MicroComponents(tune, its) ==
    IF its = <<>> THEN [retrieved |-> 0, relevant |-> 0, both |-> 0]
    ELSE LET rest == MicroComponents(tune, Tail(its))
             f == Head(its)
             c == PrfComponents(f.annotation,
                                Binarize(AggregationApply(tune.epoch, f),
                                         tune.onset, tune.offset),
                                f.annotated)
         IN IF ~Scored(f) THEN rest
            ELSE [retrieved |-> rest.retrieved + c.retrieved,
                  relevant |-> rest.relevant + c.relevant,
                  both |-> rest.both + c.both]

\* C4: the final line apply mode appends to eval.txt has uri "ALL", and each
\* of precision, recall and F-measure is the micro-average over the scored
\* files: the value of the components summed over them.
C4_AllLineMicroAverage ==
    ApplyEnded =>
       /\ evalTxt # <<>>
       /\ LET micro == MicroComponents(tuneYml[1], items)
              p == PrecisionRate(micro)
              r == RecallRate(micro)
          IN evalTxt[Len(evalTxt)] =
                EvalLine("ALL", p, r, f_measure(p, r, arguments.recall))

\* C5: in apply mode an item without reference annotation or annotated
\* region is not scored and does not abort the run: its soft and hard files
\* are written, eval.txt has no line for it, and the later items are still
\* processed.
C5_UnscoredItemSkipped ==
    ApplyEnded =>
       \A i \in 1..Len(items) :
          ~Scored(items[i]) =>
             /\ items[i].uri \in softPkl /\ items[i].uri \in hardJson
             /\ \A k \in 1..Len(evalTxt) : evalTxt[k].uri # items[i].uri
             /\ \A j \in (i + 1)..Len(items) :
                   items[j].uri \in softPkl /\ items[j].uri \in hardJson

\* callback has run for the latest of n_trials >= 1 trials
AfterCallback ==
    mode = "tune" /\ pc \in {"objective", "done"} /\ n_trials >= 1

\* the (epoch, onset, offset) triple tune.yml holds
YmlPoint == <<tuneYml[1].epoch, tuneYml[1].onset, tuneYml[1].offset>>

\* C6: after every completed tuning trial n, tune.yml (rewritten at that
\* trial) holds a triple of minimum objective value among the trials 1..n,
\* and status.nb_epoch, the number of checkpoints the scan found.
C6_TuneYmlBestSoFar ==
    AfterCallback =>
       /\ tuneYml # <<>>
       /\ tuneFiles["tune.yml"] = n_trials
       /\ tuneYml[1].status.nb_epoch = nb_epoch
       /\ \E t \in Xi :
             /\ t.x = YmlPoint
             /\ \A u \in Xi : RLeq(t.y, u.y)

\* after three trials or more the best point is neither the first nor the
\* latest one, and a worse point has been tried
C6_Witness ==
    /\ AfterCallback
    /\ n_trials >= 3
    /\ YmlPoint # parameters
    /\ YmlPoint # X0(nb_epoch)
    /\ \E t, u \in Xi : t.x = YmlPoint /\ RLess(t.y, u.y)

IsPrefix(s, t) == Len(s) <= Len(t) /\ \A i \in 1..Len(s) : t[i] = s[i]

\* C7: validation mode appends to the DER file: the lines present when the
\* run starts are preserved, each evaluated epoch adds one line at the end,
\* and no existing line is ever removed or rewritten.
C7_DerTxtNeverLosesLines ==
    [][ mode = "validation" => IsPrefix(derTxt, derTxt') ]_vars

\* C7, amended: validation mode opens the DER file for writing, which
\* discards the lines present when the run starts; from then on the file
\* only grows: each evaluated epoch adds exactly one line, its own, at the
\* end, and no line written during the run is removed or rewritten.
C7_DerTxtTruncatedThenAppended ==
    [][ mode = "validation" =>
          /\ (pc = "validate" /\ pc' = "poll") => derTxt' = <<>>
          /\ pc = "poll" =>
               /\ IsPrefix(derTxt, derTxt')
               /\ IF epoch' # epoch
                  THEN /\ Len(derTxt') = Len(derTxt) + 1
                       /\ derTxt'[Len(derTxt')].epoch = epoch
                       /\ derTxt'[Len(derTxt')].now = now
                  ELSE derTxt' = derTxt
          /\ pc \notin {"validate", "poll"} => derTxt' = derTxt ]_vars

\* a run that found lines in the file has written the lines of two epochs
C7_Witness ==
    /\ mode = "validation" /\ pc = "poll"
    /\ derTxtOld # <<>>
    /\ Len(derTxt) = 2
    /\ derTxt[1].epoch = 0 /\ derTxt[2].epoch = 1

\* the output file is written by this step
Rewritten(f) == tuneFiles'[f] # tuneFiles[f]

\* C8: in the tuner callback convergence.png, evaluation.png, objective.png
\* and tune.gz are regenerated only after every 10th trial: after a trial
\* whose count is not a multiple of 10 none of the four is written.
C8_NoPlotOffPeriod ==
    [][ (mode = "tune" /\ pc = "callback" /\ n_trials % PLOT_PERIOD # 0) =>
          \A f \in {"convergence.png", "evaluation.png", "objective.png",
                    "tune.gz"} : ~Rewritten(f) ]_vars

\* C8, amended: callback writes convergence.png (like tune.yml) after every
\* trial; evaluation.png, objective.png and tune.gz are written only after
\* a trial whose count is a multiple of 10, and evaluation.png and tune.gz
\* are written after each such trial.
C8_PlotsByPeriod ==
    [][ (mode = "tune" /\ pc = "callback") =>
          /\ tuneFiles'["convergence.png"] = n_trials
          /\ n_trials % PLOT_PERIOD # 0 =>
                \A f \in {"evaluation.png", "objective.png", "tune.gz"} :
                   ~Rewritten(f)
          /\ n_trials % PLOT_PERIOD = 0 =>
                /\ tuneFiles'["evaluation.png"] = n_trials
                /\ tuneFiles'["tune.gz"] = n_trials ]_vars

\* after the 11th trial: the convergence plot is that of trial 11, the
\* period's files are those of trial 10
C8_Witness ==
    /\ AfterCallback
    /\ n_trials = PLOT_PERIOD + 1
    /\ tuneFiles["convergence.png"] = PLOT_PERIOD + 1
    /\ tuneFiles["evaluation.png"] = PLOT_PERIOD
    /\ tuneFiles["tune.gz"] = PLOT_PERIOD

\* C9: within one tuning run aggregation.apply is invoked at most once per
\* (epoch, uri): the cache, keyed by epoch then uri, holds exactly the
\* predictions of the pairs it was invoked on, a trial on an epoch already
\* evaluated reuses them, and an entry once stored is never overwritten or
\* removed.
C9_PredictOncePerEpochUri ==
    /\ [](mode = "tune" =>
            /\ \A k \in DOMAIN applyCalls : applyCalls[k] <= 1
            /\ DOMAIN predictions \subseteq Epochs
            /\ \A e \in Epochs, u \in Uris :
                  (applyCalls[<<e, u>>] = 1) <=>
                  (e \in DOMAIN predictions /\ u \in DOMAIN predictions[e]))
    /\ [][ \A e \in DOMAIN predictions :
              /\ e \in DOMAIN predictions'
              /\ \A u \in DOMAIN predictions[e] :
                    /\ u \in DOMAIN predictions'[e]
                    /\ predictions'[e][u] = predictions[e][u] ]_vars

\* two different points of the same epoch have been evaluated, and the
\* predictor ran once on that epoch's first file
C9_Witness ==
    /\ mode = "tune" /\ items # <<>>
    /\ \E t, u \in Xi :
          /\ t.x # u.x /\ t.x[1] = u.x[1]
          /\ applyCalls[<<t.x[1], items[1].uri>>] = 1
          /\ items[1].uri \in DOMAIN predictions[t.x[1]]

\* C10: validation mode evaluates the epochs 0, 1, 2, ... in order, without
\* skip or repeat: an epoch is evaluated only once its weights file exists
\* and after every earlier epoch was evaluated once; while the weights file
\* of the current epoch is missing the loop only sleeps and probes the same
\* epoch again, whatever files of later epochs exist.
C10_EpochsInOrder ==
    /\ [](mode = "validation" =>
            /\ \A i \in 1..Len(xpCalls) :
                  xpCalls[i] = i - 1 /\ xpCalls[i] \in weights
            /\ pc = "poll" => epoch = Len(xpCalls) /\ Len(derTxt) = epoch)
    /\ [][ (mode = "validation" /\ pc = "poll" /\ epoch \notin weights) =>
              /\ pc' = "poll" /\ epoch' = epoch
              /\ xpCalls' = xpCalls /\ derTxt' = derTxt
              /\ now' \in {now, now + SLEEP_SECONDS} ]_vars

\* epoch 0 was evaluated at time 0; the loop has since slept waiting for
\* epoch 1, whose file is missing while that of epoch 2 exists
C10_Witness ==
    /\ mode = "validation" /\ pc = "poll"
    /\ epoch = 1 /\ xpCalls = <<0>>
    /\ 1 \notin weights /\ 2 \in weights
    /\ derTxt[1].now = 0 /\ now >= SLEEP_SECONDS

\* the loop waits for epoch e, whose weights file exists (and stays: weights
\* files are never removed)
WaitingWithFile(e) ==
    mode = "validation" /\ pc = "poll" /\ epoch = e /\ e \in weights

\* the DER line of epoch e is written and the loop is at the next epoch
MovedOn(e) ==
    /\ Len(derTxt) > e /\ derTxt[e + 1].epoch = e
    /\ epoch = e + 1 /\ pc = "poll"

ObjectiveCalled == mode = "tune" /\ parameters # <<>>

\* C12: in tune mode every epoch the objective function is evaluated on,
\* that of x0 = [nb_epoch - 1, 0.5, 0.5] included, lies in 0..nb_epoch-1,
\* so that its weights file existed at scan time, whatever the number of
\* checkpoint files when tune starts.
C12_EvaluatedEpochScanned ==
    ObjectiveCalled =>
       /\ parameters[1] \in 0..(nb_epoch - 1)
       /\ parameters[1] \in weights

\* C12, amended: when the scan finds at least one checkpoint (nb_epoch >= 1)
\* every epoch the objective function is evaluated on, that of x0 included,
\* lies in 0..nb_epoch-1 and its weights file exists; when it finds none
\* (nb_epoch = 0) the only point the objective function can be called on is
\* x0, of epoch -1, and that call ends the run (no weights file) before any
\* prediction or trial.
C12_EvaluatedEpochScannedIfAny ==
    ObjectiveCalled =>
       IF nb_epoch >= 1
       THEN /\ parameters[1] \in 0..(nb_epoch - 1)
            /\ parameters[1] \in weights
       ELSE /\ parameters = <<-1, 5, 5>>
            /\ pc = "aborted" /\ error = "IOError"
            /\ n_trials = 0 /\ Xi = {}
            /\ \A k \in DOMAIN applyCalls : applyCalls[k] = 0

\* x0, of the last scanned epoch, was evaluated first, and a later trial is
\* on the first epoch
C12_Witness ==
    /\ ObjectiveCalled
    /\ nb_epoch >= 2 /\ n_trials >= 2
    /\ parameters[1] = 0
    /\ \E t \in Xi : t.x = <<nb_epoch - 1, 5, 5>>

\* the detection error rate of the components summed over all the items
RECURSIVE SumDerComponents(_, _, _, _)
SumDerComponents(ep, its, onset, offset) ==
    IF its = <<>> THEN [total |-> 0, error |-> 0]
    ELSE LET item == Head(its)
             c == DerComponents(item.annotation,
                                Binarize(AggregationApply(ep, item),
                                         onset, offset),
                                get_annotated(item))
             rest == SumDerComponents(ep, Tail(its), onset, offset)
         IN [total |-> c.total + rest.total, error |-> c.error + rest.error]

\* C13: the detection error rate speech_activity_detection_xp returns, and
\* validation mode writes to the DER file for an epoch, is the rate
\* accumulated over all the items of the subset, not that of a single item.
C13_DerAccumulatedOverItems ==
    mode = "validation" =>
       \A i \in 1..Len(ders) :
          LET accumulated ==
                 Format5f(DerRate(SumDerComponents(i - 1, items, 5, 5)))
          IN /\ Format5f(ders[i]) = accumulated
             /\ derTxt[i].epoch = i - 1 /\ derTxt[i].der = accumulated

====
